---- MODULE Spec2Model ----
(***************************************************************************)
(* The cart state manager of hook-shopping-cart (src/hooks/useCart.tsx).   *)
(*                                                                         *)
(* CartProvider keeps the cart in a React state cell.  Every render builds *)
(* new addProduct / removeProduct / updateProductAmount closures over the  *)
(* `cart` array of that render.  Product objects live on a heap and are    *)
(* shared between the arrays that were copied from one another with        *)
(* [...cart] (a shallow copy), so `productExists.amount = amount` is an    *)
(* in-place write that every array holding the object sees.                *)
(*                                                                         *)
(* A Product is modelled by the two fields the provider reads or writes,   *)
(* id and amount; title, price and image are carried along untouched.      *)
(* setCart, the re-render it causes and the effects of that render are one *)
(* step: outside a batched handler React renders synchronously, and no     *)
(* cart operation can be invoked between the update and its render.        *)
(*                                                                         *)
(* The stock and catalog services are reached through api.get.  A request  *)
(* resolves or rejects; a resolved stock request carries an integer        *)
(* amount.  Four specifications share the operations:                      *)
(*   Spec            one session, any stock answer to any request          *)
(*   FixedStockSpec  one session, the stock amounts fixed per product      *)
(*   ReloadSpec      Spec with page reloads                                *)
(*   LiveSpec        Spec in which every lookup returns                    *)
(***************************************************************************)
EXTENDS Integers, Sequences, FiniteSets, Bags, TLC

\* Bounds of the model.
NumProducts == 2      \* product ids 1..NumProducts
MaxStock == 2         \* the stock service answers with an amount in 0..MaxStock
MaxOps == 2           \* invocations of cart operations in one session
MaxStored == 1        \* entries in the snapshot the session starts from

Products == 1..NumProducts
StockAmounts == 0..MaxStock
\* amounts a caller may pass to updateProductAmount: not positive, and within
\* or above what the stock service answers
RequestedAmounts == 0..MaxStock

\* prevCartRef.current before the first effect ran (useRef() with no value)
Undefined == 0

\* The stock service is not part of the provider.  Its amounts may change
\* between two requests (stock = Varying: any answer to any request), or be
\* fixed for the session (stock[p] is the amount of product p).
Varying == <<>>
StockTables == [Products -> StockAmounts]

\* toast.error messages
OutOfStockMsg == "Quantidade solicitada fora de estoque"
AddFailedMsg == "Erro na adicao de produto"
RemoveFailedMsg == "Erro na remocao do produto"
UpdateFailedMsg == "Erro na alteracao de quantidade do produto"
NoToast == "none"

VARIABLES
    heap,         \* Product objects: heap[r] = [id, amount], r is the reference
    cart,         \* the state cell: the array (of references) last given to setCart
    cartId,       \* identity of that array (what `!==` compares)
    prevCartRef,  \* prevCartRef.current: identity of the array of the last render
    storage,      \* localStorage['@RocketShoes:cart']: <<>> if absent, else <<text>>
    ops,          \* the invocations suspended on an await (a bag: they have no order)
    done,         \* the invocation that returned last, with how it ended
    invoked,      \* number of invocations so far
    stock         \* the stock service: Varying, or the amount it holds per product

vars == <<heap, cart, cartId, prevCartRef, storage, ops, done, invoked, stock>>

----------------------------------------------------------------------------
\* Pure helpers: the array and JSON primitives the provider uses.

\* JSON.stringify(cart): the text holds the field values of each object, in order
stringify(list, h) == [i \in 1..Len(list) |-> h[list[i]]]

\* JSON.parse(text) allocates one fresh object per element of the text
parseHeap(text) == text

parseCartEmpty(text) == <<>>

parseCart(text) == [i \in 1..Len(text) |-> i]

\* updatedCart.findIndex(product => product.id === productId), 1-based; 0 for -1
findIndex(list, h, productId) ==
    IF \E i \in 1..Len(list) : h[list[i]].id = productId
    THEN CHOOSE i \in 1..Len(list) :
            /\ h[list[i]].id = productId
            /\ \A j \in 1..(i - 1) : h[list[j]].id # productId
    ELSE 0

findNothing(list, h, productId) == Undefined

\* updatedCart.find(product => product.id === productId): the reference, or Undefined
find(list, h, productId) ==
    LET index == findIndex(list, h, productId)
    IN  IF index = 0 THEN Undefined ELSE list[index]

spliceToEnd(list, productIndex) == SubSeq(list, 1, productIndex - 1)

\* updatedCart.splice(productIndex, 1)
splice(list, productIndex) ==
    [i \in 1..(Len(list) - 1) |-> IF i < productIndex THEN list[i] ELSE list[i + 1]]

pushFront(list, ref) == <<ref>> \o list

indexNotChecked(productIndex) == productIndex >= 0

\* if (productIndex >= 0), for the 1-based index of findIndex above
indexFound(productIndex) == productIndex >= 1

\* updatedCart.push(newProduct)
push(list, ref) == Append(list, ref)

desiredAmountPlusTwo(currentAmount) == currentAmount + 2

\* const amount = currentAmount + 1
desiredAmount(currentAmount) == currentAmount + 1

belowStock(amount, stockAmount) == amount < stockAmount

exceedsStockByTwo(amount, stockAmount) == amount > stockAmount + 1

\* if (amount > stockAmount)
exceedsStock(amount, stockAmount) == amount > stockAmount

isNegativeAmount(amount) == amount < 0

\* if (amount <= 0) return
isIgnoredAmount(amount) == amount <= 0

cartSame(cartPreviousValue, current) == cartPreviousValue = current

\* if (cartPreviousValue !== cart)
cartChanged(cartPreviousValue, current) == cartPreviousValue # current

addAmount(h, ref, amount) == [h EXCEPT ![ref].amount = h[ref].amount + amount]

\* productExists.amount = amount
setAmount(h, ref, amount) == [h EXCEPT ![ref].amount = amount]

----------------------------------------------------------------------------
\* The provider: state cell, render and effects.

\* prevCartRef.current ?? cart
cartPreviousValueOf(ref, current) == IF ref = Undefined THEN current ELSE ref

\* The identity of a newly created array: one that no closure, and neither
\* the state cell nor prevCartRef, holds
newArray ==
    LET held == {cartId, prevCartRef} \cup {op.cartId : op \in BagToSet(ops)}
    IN  CHOOSE a \in 1..(MaxOps + 2) :
            /\ a \notin held
            /\ \A b \in 1..(a - 1) : b \in held

\* The second effect of a render whose cart array has identity `current`
persist(cartPreviousValue, current, list, h) ==
    IF cartChanged(cartPreviousValue, current) THEN <<stringify(list, h)>> ELSE storage

\* setCart(updatedCart) with the render and the two effects that follow it.
\* updatedCart is always an array created by the calling operation, so its
\* identity differs from that of every array still referenced.
setCart(updatedCart, h) ==
    LET current == newArray
        cartPreviousValue == cartPreviousValueOf(prevCartRef, current)
    IN  /\ cart' = updatedCart
        /\ cartId' = current
        /\ heap' = h
        /\ prevCartRef' = current
        /\ storage' = persist(cartPreviousValue, current, updatedCart, h)

\* The snapshots a previous session can have left: absent, or a list with one
\* entry per id and every amount at least 1.
StoredEntries == [id : Products, amount : 1..MaxStock]

StoredLists ==
    {l \in UNION {[1..n -> StoredEntries] : n \in 0..MaxStored} :
        \A i, j \in 1..Len(l) : i # j => l[i].id # l[j].id}

Snapshots == {<<>>} \cup {<<l>> : l \in StoredLists}

\* `done` before any invocation has returned
NoneYet ==
    [kind |-> "none", pc |-> "done", current |-> TRUE, found |-> FALSE,
     toast |-> NoToast, committed |-> FALSE]

\* useState initialiser, first render and its effects: the first render
\* finds prevCartRef.current undefined, so cartPreviousValue is cart itself
\* and nothing is written; the first effect then stores cart in the ref.
Init ==
    \E snap \in Snapshots :
            LET text == IF snap = <<>> THEN <<>> ELSE snap[1]
                cartPreviousValue == cartPreviousValueOf(Undefined, 1)
            IN  /\ storage = IF cartChanged(cartPreviousValue, 1)
                            THEN <<stringify(parseCart(text), parseHeap(text))>>
                            ELSE snap
                /\ heap = parseHeap(text)
                /\ cart = parseCart(text)
                /\ cartId = 1
                /\ prevCartRef = 1
                /\ ops = EmptyBag
                /\ done = NoneYet
                /\ invoked = 0
                /\ stock = Varying

----------------------------------------------------------------------------
\* Operations.  An invocation runs the closure of the current render.

\* An invocation: its arguments, the `cart` of its closure (and that array's
\* identity) and the request it awaits: pc = "stock" while GET /stock/{id} is
\* in flight, "catalog" while GET /products/{id} is.
Op(kind, productId, amount, pc) ==
    [kind |-> kind, productId |-> productId, amount |-> amount,
     cart |-> cart, cartId |-> cartId, pc |-> pc]

\* How an invocation ended: the request it awaited last ("done" if it never
\* awaited one), the toast it showed (NoToast if none), whether it called
\* setCart, whether the `cart` of its closure was still the array in the
\* state cell when it took its last step, and whether that `cart` held an
\* entry for its product.
Ended(op, toast, committed) ==
    [kind |-> op.kind, pc |-> op.pc, current |-> (op.cartId = cartId),
     found |-> (findIndex(op.cart, heap, op.productId) # 0),
     toast |-> toast, committed |-> committed]

\* the suspended invocation op returns
finish(op, toast, committed) ==
    /\ done' = Ended(op, toast, committed)
    /\ ops' = ops (-) SetToBag({op})
    /\ UNCHANGED invoked

\* a synchronous invocation returns without ever being suspended
finishNow(op, toast, committed) ==
    /\ done' = Ended(op, toast, committed)
    /\ invoked' = invoked + 1
    /\ UNCHANGED ops

\* an invocation reaches its first await
suspend(op) ==
    /\ ops' = ops (+) SetToBag({op})
    /\ invoked' = invoked + 1
    /\ UNCHANGED done

CanInvokeWhenIdle == invoked < MaxOps /\ ops = EmptyBag

\* Nothing in the provider keeps an operation from being invoked; the model
\* follows a session for MaxOps invocations.
CanInvoke == invoked < MaxOps

Pending(op, kind, pc) == op.kind = kind /\ op.pc = pc /\ BagIn(op, ops)

\* addProduct up to `await api.get(/stock/id)`
addProduct(productId) ==
    /\ UNCHANGED stock
    /\ CanInvoke
    /\ suspend(Op("add", productId, 0, "stock"))
    /\ UNCHANGED <<heap, cart, cartId, prevCartRef, storage>>

addProductStockCatalogUnchecked(op, stockAmount) ==
    /\ UNCHANGED stock
    /\ Pending(op, "add", "stock")
    /\ LET updatedCart == op.cart
           productExists == find(updatedCart, heap, op.productId)
           currentAmount == IF productExists # Undefined THEN heap[productExists].amount ELSE 0
           amount == desiredAmount(currentAmount)
       IN  IF productExists = Undefined
           THEN /\ ops' = (ops (-) SetToBag({op})) (+) SetToBag({[op EXCEPT !.pc = "catalog"]})
                /\ UNCHANGED <<heap, cart, cartId, prevCartRef, storage, done, invoked>>
           ELSE IF exceedsStock(amount, stockAmount)
           THEN /\ finish(op, OutOfStockMsg, FALSE)
                /\ UNCHANGED <<heap, cart, cartId, prevCartRef, storage>>
           ELSE /\ setCart(updatedCart, setAmount(heap, productExists, amount))
                /\ finish(op, NoToast, TRUE)

\* GET /stock/id resolves with {amount: stockAmount}: the rest of addProduct
\* up to the next await
addProductStock(op, stockAmount) ==
    /\ UNCHANGED stock
    /\ Pending(op, "add", "stock")
    /\ LET updatedCart == op.cart
           productExists == find(updatedCart, heap, op.productId)
           currentAmount == IF productExists # Undefined THEN heap[productExists].amount ELSE 0
           amount == desiredAmount(currentAmount)
       IN  IF exceedsStock(amount, stockAmount)
           THEN /\ finish(op, OutOfStockMsg, FALSE)
                /\ UNCHANGED <<heap, cart, cartId, prevCartRef, storage>>
           ELSE IF productExists # Undefined
           THEN /\ setCart(updatedCart, setAmount(heap, productExists, amount))
                /\ finish(op, NoToast, TRUE)
           ELSE /\ ops' = (ops (-) SetToBag({op})) (+) SetToBag({[op EXCEPT !.pc = "catalog"]})
                /\ UNCHANGED <<heap, cart, cartId, prevCartRef, storage, done, invoked>>

\* the stock request rejects: catch
addProductStockFails(op) ==
    /\ UNCHANGED stock
    /\ Pending(op, "add", "stock")
    /\ finish(op, AddFailedMsg, FALSE)
    /\ UNCHANGED <<heap, cart, cartId, prevCartRef, storage>>

\* GET /products/id resolves: newProduct = {...product.data, amount: 1}
addProductCatalog(op) ==
    /\ UNCHANGED stock
    /\ Pending(op, "add", "catalog")
    /\ LET newProduct == [id |-> op.productId, amount |-> 1]
           newHeap == Append(heap, newProduct)
           updatedCart == push(op.cart, Len(newHeap))
       IN  setCart(updatedCart, newHeap)
    /\ finish(op, NoToast, TRUE)

addProductCatalogFailsCommits(op) ==
    /\ UNCHANGED stock
    /\ Pending(op, "add", "catalog")
    /\ setCart(op.cart, heap)
    /\ finish(op, AddFailedMsg, FALSE)

\* GET /products/id rejects: catch
addProductCatalogFails(op) ==
    /\ UNCHANGED stock
    /\ Pending(op, "add", "catalog")
    /\ finish(op, AddFailedMsg, FALSE)
    /\ UNCHANGED <<heap, cart, cartId, prevCartRef, storage>>

\* removeProduct is synchronous
removeProduct(productId) ==
    /\ UNCHANGED stock
    /\ CanInvoke
    /\ LET updatedCart == cart
           productIndex == findIndex(updatedCart, heap, productId)
       IN  IF indexFound(productIndex)
           THEN /\ setCart(splice(updatedCart, productIndex), heap)
                /\ finishNow(Op("remove", productId, 0, "done"), NoToast, TRUE)
           ELSE /\ finishNow(Op("remove", productId, 0, "done"), RemoveFailedMsg, FALSE)
                /\ UNCHANGED <<heap, cart, cartId, prevCartRef, storage>>

\* updateProductAmount up to the await, or its early return
updateProductAmount(productId, amount) ==
    /\ UNCHANGED stock
    /\ CanInvoke
    /\ IF isIgnoredAmount(amount)
       THEN finishNow(Op("update", productId, amount, "done"), NoToast, FALSE)
       ELSE suspend(Op("update", productId, amount, "stock"))
    /\ UNCHANGED <<heap, cart, cartId, prevCartRef, storage>>

updateProductAmountStockWritesFirst(op, stockAmount) ==
    /\ UNCHANGED stock
    /\ Pending(op, "update", "stock")
    /\ LET amount == op.amount
           updatedCart == op.cart
           productExists == find(updatedCart, heap, op.productId)
           written == IF productExists # Undefined
                      THEN setAmount(heap, productExists, amount)
                      ELSE heap
       IN  IF exceedsStock(amount, stockAmount)
           THEN /\ finish(op, OutOfStockMsg, FALSE)
                /\ heap' = written
                /\ UNCHANGED <<cart, cartId, prevCartRef, storage>>
           ELSE IF productExists # Undefined
           THEN /\ setCart(updatedCart, written)
                /\ finish(op, NoToast, TRUE)
           ELSE /\ finish(op, UpdateFailedMsg, FALSE)
                /\ UNCHANGED <<heap, cart, cartId, prevCartRef, storage>>

\* GET /stock/id resolves with {amount: stockAmount}: the rest of
\* updateProductAmount
updateProductAmountStock(op, stockAmount) ==
    /\ UNCHANGED stock
    /\ Pending(op, "update", "stock")
    /\ LET amount == op.amount
           updatedCart == op.cart
           productExists == find(updatedCart, heap, op.productId)
       IN  IF exceedsStock(amount, stockAmount)
           THEN /\ finish(op, OutOfStockMsg, FALSE)
                /\ UNCHANGED <<heap, cart, cartId, prevCartRef, storage>>
           ELSE IF productExists # Undefined
           THEN /\ setCart(updatedCart, setAmount(heap, productExists, amount))
                /\ finish(op, NoToast, TRUE)
           ELSE /\ finish(op, UpdateFailedMsg, FALSE)
                /\ UNCHANGED <<heap, cart, cartId, prevCartRef, storage>>

\* the stock request rejects: catch
updateProductAmountStockFails(op) ==
    /\ UNCHANGED stock
    /\ Pending(op, "update", "stock")
    /\ finish(op, UpdateFailedMsg, FALSE)
    /\ UNCHANGED <<heap, cart, cartId, prevCartRef, storage>>

\* stock.data.amount in the response to GET /stock/productId
stockAmounts(productId) == IF stock = Varying THEN StockAmounts ELSE {stock[productId]}

Next ==
    \/ \E p \in Products : addProduct(p)
    \/ \E op \in BagToSet(ops) : \E stockAmount \in stockAmounts(op.productId) : addProductStock(op, stockAmount)
    \/ \E op \in BagToSet(ops) : addProductStockFails(op)
    \/ \E op \in BagToSet(ops) : addProductCatalog(op)
    \/ \E op \in BagToSet(ops) : addProductCatalogFails(op)
    \/ \E p \in Products : removeProduct(p)
    \/ \E p \in Products : \E a \in RequestedAmounts : updateProductAmount(p, a)
    \/ \E op \in BagToSet(ops) : \E stockAmount \in stockAmounts(op.productId) : updateProductAmountStock(op, stockAmount)
    \/ \E op \in BagToSet(ops) : updateProductAmountStockFails(op)

Spec == Init /\ [][Next]_vars

\* The lookup that the suspended invocation op awaits returns, with a response
\* or with a failure, and op runs on from its await
lookupReturns(op) ==
    \/ \E stockAmount \in stockAmounts(op.productId) : addProductStock(op, stockAmount)
    \/ addProductStockFails(op)
    \/ addProductCatalog(op)
    \/ addProductCatalogFails(op)
    \/ \E stockAmount \in stockAmounts(op.productId) : updateProductAmountStock(op, stockAmount)
    \/ updateProductAmountStockFails(op)

\* Sessions in which no lookup hangs: a settled promise resumes its awaiting
\* invocation as soon as the event loop is free.
LiveSpec == Init /\ [][Next]_vars /\ WF_vars(\E op \in BagToSet(ops) : lookupReturns(op))

\* A session during which the amounts of the stock service do not change, and
\* which starts from a snapshot whose amounts are within them
InitFixedStock ==
    \E table \in StockTables : \E snap \in Snapshots :
        LET text == IF snap = <<>> THEN <<>> ELSE snap[1]
        IN  /\ \A i \in 1..Len(text) : text[i].amount <= table[text[i].id]
            /\ storage = snap
            /\ heap = parseHeap(text)
            /\ cart = parseCart(text)
            /\ cartId = 1
            /\ prevCartRef = 1
            /\ ops = EmptyBag
            /\ done = NoneYet
            /\ invoked = 0
            /\ stock = table

FixedStockSpec == InitFixedStock /\ [][Next]_vars

\* The page is reloaded: the application starts again from what localStorage
\* holds.  The useState initialiser reads the snapshot, the first render finds
\* prevCartRef.current undefined and its effects write nothing; the
\* invocations still suspended belong to the page that is gone.
reload ==
    LET text == IF storage = <<>> THEN <<>> ELSE storage[1]
        cartPreviousValue == cartPreviousValueOf(Undefined, 1)
    IN  /\ storage' = persist(cartPreviousValue, 1, parseCart(text), parseHeap(text))
        /\ heap' = parseHeap(text)
        /\ cart' = parseCart(text)
        /\ cartId' = 1
        /\ prevCartRef' = 1
        /\ ops' = EmptyBag
        /\ done' = NoneYet
        /\ UNCHANGED <<invoked, stock>>

NextOrReload ==
    \/ Next
    \/ reload

\* Sessions that end in a reload and start again from the snapshot
ReloadSpec == Init /\ [][NextOrReload]_vars

----------------------------------------------------------------------------
\* Vocabulary of the properties.

\* A cart list as the consumer sees it: the entries, in order
Entries(list, h) == [i \in 1..Len(list) |-> [id |-> h[list[i]].id, amount |-> h[list[i]].amount]]

HasEntry(entries, p) == \E i \in 1..Len(entries) : entries[i].id = p

\* the amount of p's entry
AmountOf(entries, p) == entries[CHOOSE i \in 1..Len(entries) : entries[i].id = p].amount

\* entries with the amount of p's entries replaced by a
WithAmount(entries, p, a) ==
    [i \in 1..Len(entries) |-> IF entries[i].id = p THEN [id |-> p, amount |-> a] ELSE entries[i]]

\* entries without the entries of p
Without(entries, p) ==
    LET keep(e) == e.id # p IN SelectSeq(entries, keep)

\* The step leaves the cart list, the objects and the snapshot alone
NothingWritten == cart' = cart /\ heap' = heap /\ storage' = storage

\* The step is the return of an invocation that ended as given
Returns(kind, toast, committed) ==
    /\ done'.kind = kind
    /\ done'.toast = toast
    /\ done'.committed = committed

\* The step is the return of an invocation: of a suspended one, or of one that
\* is never suspended
Returned ==
    \/ BagCardinality(ops') < BagCardinality(ops)
    \/ invoked' = invoked + 1 /\ ops' = ops

\* The suspended invocation op awaits the answer to a request
Awaits(op, kind, pc) == op.kind = kind /\ op.pc = pc

\* Closures of the current render see the list of the state cell
ClosureOf(op) == op.cartId = cartId => op.cart = cart

----------------------------------------------------------------------------
\* C1: addProduct(p) on a product that has an entry.  When amount + 1 is
\* within the stock the service answers for p, the committed list is the
\* previous list with p's amount raised by exactly 1: same length, same
\* order, every other entry as it was.  When amount + 1 exceeds the stock,
\* nothing is written and the out-of-stock toast is shown.  The previous list
\* is the `cart` of the invocation's closure, which is the list of the state
\* cell whenever no other operation committed since the invocation.
C1_AddExisting ==
    [][ops' # ops =>
        \A op \in BagToSet(ops) :
            LET prev == Entries(op.cart, heap)
                p == op.productId
            IN  (Awaits(op, "add", "stock") /\ HasEntry(prev, p)) =>
                    \A stockAmount \in StockAmounts :
                        addProductStock(op, stockAmount) =>
                            /\ ClosureOf(op)
                            /\ IF AmountOf(prev, p) + 1 <= stockAmount
                               THEN /\ Returns("add", NoToast, TRUE)
                                    /\ Entries(cart', heap') =
                                          WithAmount(prev, p, AmountOf(prev, p) + 1)
                                    /\ Len(cart') = Len(op.cart)
                               ELSE /\ Returns("add", OutOfStockMsg, FALSE)
                                    /\ NothingWritten
      ]_vars

\* an addProduct on an existing entry has committed, from the current list,
\* which holds another entry as well
C1_Witness ==
    /\ done.kind = "add" /\ done.committed /\ done.found /\ done.current
    /\ Len(cart) >= 2

\* C2: addProduct(p) on a product that has no entry.  When the stock service
\* answers 1 or more, the catalog is asked, and when it answers the committed
\* list is the previous list, every entry as it was, with one new entry for p
\* of amount 1 at the end.  When the stock is 0, nothing is written and the
\* out-of-stock toast is shown.  The previous list is the `cart` of the
\* invocation's closure, as in C1.
C2_AddNew ==
    [][ops' # ops =>
        \A op \in BagToSet(ops) :
            LET prev == Entries(op.cart, heap)
                p == op.productId
            IN  /\ (Awaits(op, "add", "stock") /\ ~HasEntry(prev, p)) =>
                      \A stockAmount \in StockAmounts :
                          addProductStock(op, stockAmount) =>
                              /\ ClosureOf(op)
                              /\ NothingWritten
                              /\ IF stockAmount >= 1
                                 THEN /\ BagIn([op EXCEPT !.pc = "catalog"], ops')
                                      /\ done' = done
                                 ELSE Returns("add", OutOfStockMsg, FALSE)
                /\ (Awaits(op, "add", "catalog") /\ addProductCatalog(op)) =>
                      /\ ClosureOf(op)
                      /\ Returns("add", NoToast, TRUE)
                      /\ Entries(cart', heap') = Append(prev, [id |-> p, amount |-> 1])
      ]_vars

\* a new entry has been appended behind an entry the list already had
C2_Witness ==
    /\ done.kind = "add" /\ done.committed /\ ~done.found /\ done.current
    /\ Len(cart) >= 2
    /\ heap[cart[Len(cart)]].amount = 1

\* C3: removeProduct(p) on a product that has an entry commits the list with
\* exactly that entry gone, the others in their order with their amounts, and
\* the snapshot holds the new list.
C3_RemovePresent ==
    [][invoked' # invoked =>
        \A p \in Products :
            (HasEntry(Entries(cart, heap), p) /\ removeProduct(p)) =>
                /\ Returns("remove", NoToast, TRUE)
                /\ Entries(cart', heap') = Without(Entries(cart, heap), p)
                /\ Len(cart') = Len(cart) - 1
                /\ storage' = <<Entries(cart', heap')>>
      ]_vars

\* an entry has been removed, another one stayed, and the snapshot holds the
\* list that is left
C3_Witness ==
    /\ done.kind = "remove" /\ done.committed /\ done.found
    /\ Len(cart) >= 1
    /\ storage = <<Entries(cart, heap)>>

\* C4: removeProduct(p) on a product that has no entry writes neither the
\* list nor the snapshot and shows the remove-failed toast.
C4_RemoveAbsent ==
    [][invoked' # invoked =>
        \A p \in Products :
            (~HasEntry(Entries(cart, heap), p) /\ removeProduct(p)) =>
                /\ Returns("remove", RemoveFailedMsg, FALSE)
                /\ NothingWritten
      ]_vars

\* a removeProduct failed on a cart that holds other products
C4_Witness ==
    /\ done.kind = "remove" /\ done.toast = RemoveFailedMsg /\ ~done.found
    /\ Len(cart) >= 1

\* C5: updateProductAmount(p, amount) with amount <= 0 returns at once for
\* every p, in the cart or not: nothing is written, no toast is shown and no
\* stock request is sent.
C5_UpdateIgnored ==
    [][invoked' # invoked =>
        \A p \in Products : \A a \in RequestedAmounts :
            (a <= 0 /\ updateProductAmount(p, a)) =>
                /\ Returns("update", NoToast, FALSE)
                /\ NothingWritten
                /\ ops' = ops
      ]_vars

\* an updateProductAmount returned silently for a product that is in the cart
C5_Witness ==
    /\ done.kind = "update" /\ done.toast = NoToast /\ ~done.committed /\ done.found

\* C6: updateProductAmount(p, amount) with amount > 0 and amount above the
\* stock the service answers for p writes neither the list nor the snapshot
\* and shows the out-of-stock toast, whether p has an entry or not: the stock
\* check comes before the lookup of the entry.
C6_UpdateOutOfStock ==
    [][ops' # ops =>
        \A op \in BagToSet(ops) :
            (Awaits(op, "update", "stock") /\ op.amount > 0) =>
                \A stockAmount \in StockAmounts :
                    (op.amount > stockAmount /\ updateProductAmountStock(op, stockAmount)) =>
                        /\ Returns("update", OutOfStockMsg, FALSE)
                        /\ NothingWritten
      ]_vars

\* an updateProductAmount ended out of stock for a product that is not in
\* the cart, which holds another one
C6_Witness ==
    /\ done.kind = "update" /\ done.toast = OutOfStockMsg /\ ~done.found
    /\ Len(cart) >= 1

\* C7: updateProductAmount(p, amount) with 1 <= amount <= the stock the
\* service answers for p.  When p has an entry, the committed list is the
\* previous list with p's amount set to exactly the requested value, same
\* order, every other entry as it was, and the snapshot holds it.  When p has
\* no entry, nothing is written and the update-failed toast is shown.  The
\* previous list is the `cart` of the invocation's closure, as in C1.
C7_UpdateWithinStock ==
    [][ops' # ops =>
        \A op \in BagToSet(ops) :
            LET prev == Entries(op.cart, heap)
                p == op.productId
            IN  (Awaits(op, "update", "stock") /\ 1 <= op.amount) =>
                    \A stockAmount \in StockAmounts :
                        (op.amount <= stockAmount /\ updateProductAmountStock(op, stockAmount)) =>
                            /\ ClosureOf(op)
                            /\ IF HasEntry(prev, p)
                               THEN /\ Returns("update", NoToast, TRUE)
                                    /\ Entries(cart', heap') = WithAmount(prev, p, op.amount)
                                    /\ storage' = <<Entries(cart', heap')>>
                               ELSE /\ Returns("update", UpdateFailedMsg, FALSE)
                                    /\ NothingWritten
      ]_vars

\* an updateProductAmount has committed from the current list, next to
\* another entry
C7_Witness ==
    /\ done.kind = "update" /\ done.committed /\ done.found /\ done.current
    /\ Len(cart) >= 2

\* C8: the cart list never holds two entries with the same product id, from
\* a snapshot that holds none and after any calls, overlapping ones included.
C8_UniqueIds ==
    \A i, j \in 1..Len(cart) : i # j => heap[cart[i]].id # heap[cart[j]].id

\* an addProduct that was overtaken by another commit has committed a list of
\* two entries
C8_Witness ==
    /\ done.kind = "add" /\ done.committed /\ ~done.current
    /\ Len(cart) >= 2

\* C9: the snapshot is written by every step that commits and by no other
\* step: after the return of an invocation that called setCart the snapshot
\* is the list of the state cell, also when that invocation was overtaken by
\* other commits; every other step (a suspension, a toast, the silent
\* return) leaves the snapshot and the list as they were.
C9_PersistOnCommit ==
    [][IF Returned /\ done'.committed
       THEN storage' = <<Entries(cart', heap')>>
       ELSE /\ storage' = storage
            /\ Entries(cart', heap') = Entries(cart, heap)
      ]_vars

\* an invocation that was overtaken by another commit has committed, and the
\* snapshot holds its list
C9_Witness ==
    /\ done.committed /\ ~done.current
    /\ Len(cart) >= 1
    /\ storage = <<Entries(cart, heap)>>

\* What an operation does to a list when it runs alone on it
Alone(op, entries) ==
    LET p == op.productId
    IN  IF ~HasEntry(entries, p)
        THEN IF op.kind = "add" THEN Append(entries, [id |-> p, amount |-> 1]) ELSE entries
        ELSE IF op.kind = "add"
             THEN WithAmount(entries, p, AmountOf(entries, p) + 1)
             ELSE WithAmount(entries, p, op.amount)

\* C10: operations do not interleave mid-mutation: an operation that was
\* suspended on a lookup while others were invoked commits its change on top
\* of the list the state cell holds at that moment, so that the list after
\* overlapping operations is the list after running them one after the
\* other, and no committed add, remove or amount change is lost.
C10_CommitsOnCurrentList ==
    [][(Returned /\ done'.committed) =>
        \A op \in BagToSet(ops) :
            ( \/ \E stockAmount \in StockAmounts : addProductStock(op, stockAmount)
              \/ \E stockAmount \in StockAmounts : updateProductAmountStock(op, stockAmount)
              \/ addProductCatalog(op) ) =>
                Entries(cart', heap') = Alone(op, Entries(cart, heap))
      ]_vars

\* C11: a lookup that fails during addProduct ends the invocation with the
\* add-failed toast, and the cart list, its entries and the snapshot stay as
\* they were: when the stock request fails, whether the product has an entry
\* or not, and when the catalog request fails after the stock check passed.
C11_AddLookupFails ==
    [][ops' # ops =>
        \A op \in BagToSet(ops) :
            /\ (Awaits(op, "add", "stock") /\ addProductStockFails(op)) =>
                  /\ Returns("add", AddFailedMsg, FALSE)
                  /\ NothingWritten
                  /\ cartId' = cartId
            /\ (Awaits(op, "add", "catalog") /\ addProductCatalogFails(op)) =>
                  /\ Returns("add", AddFailedMsg, FALSE)
                  /\ NothingWritten
                  /\ cartId' = cartId
      ]_vars

\* the catalog request of an addProduct has failed, on a cart that holds an
\* entry and has a snapshot
C11_Witness ==
    /\ done.kind = "add" /\ done.pc = "catalog" /\ done.toast = AddFailedMsg
    /\ Len(cart) >= 1
    /\ storage = <<Entries(cart, heap)>>

\* the list the useState initialiser builds from what localStorage holds
Deserialized(stored) == IF stored = <<>> THEN <<>> ELSE stored[1]

\* C12: when the application starts, the cart list is the deserialized
\* snapshot if there is one and the empty list otherwise, and starting writes
\* nothing to the snapshot; so a reload, after any operations, leaves the
\* cart list as it was just before the reload.
C12_ReloadRoundTrip ==
    /\ Entries(cart, heap) = Deserialized(storage)
    /\ [][reload =>
            /\ Entries(cart', heap') = Deserialized(storage)
            /\ storage' = storage
            /\ Entries(cart', heap') = Entries(cart, heap)
         ]_vars

\* the page has been reloaded after two operations committed, and the list
\* holds two entries, one of them with an amount above 1
C12_Witness ==
    /\ done = NoneYet /\ ops = EmptyBag /\ invoked >= 2
    /\ Len(cart) >= 2
    /\ \E i \in 1..Len(cart) : heap[cart[i]].amount >= 2

\* the toasts an operation of the given kind can show
ToastsOf(kind) ==
    IF kind = "add" THEN {OutOfStockMsg, AddFailedMsg}
    ELSE IF kind = "remove" THEN {RemoveFailedMsg}
    ELSE {OutOfStockMsg, UpdateFailedMsg}

\* C13: no operation throws to its caller.  Every invocation ends in exactly
\* one of three ways: it commits a new list and shows no toast; or it shows
\* one toast of its own try/catch and commits nothing, and then the cart
\* list, every entry's amount and the snapshot are as they were; or it is an
\* updateProductAmount with amount <= 0, which returns silently and writes
\* nothing.  No step other than the end of an invocation reports an outcome.
C13_OneOutcome ==
    [][IF Returned
       THEN /\ done'.kind \in {"add", "remove", "update"}
            /\ \/ /\ done'.committed
                  /\ done'.toast = NoToast
                  /\ cartId' # cartId
               \/ /\ ~done'.committed
                  /\ done'.toast \in ToastsOf(done'.kind)
                  /\ NothingWritten
                  /\ cartId' = cartId
               \/ /\ ~done'.committed
                  /\ done'.toast = NoToast
                  /\ NothingWritten
                  /\ cartId' = cartId
                  /\ \E p \in Products : \E a \in RequestedAmounts :
                        a <= 0 /\ updateProductAmount(p, a)
       ELSE done' = done
      ]_vars

\* an updateProductAmount on an entry of the cart has ended out of stock
\* after another operation committed
C13_Witness ==
    /\ done.kind = "update" /\ done.toast = OutOfStockMsg /\ ~done.committed
    /\ done.found /\ ~done.current
    /\ Len(cart) >= 1

\* C14: when the stock service holds a fixed amount stock[p] for every
\* product and the session starts from a snapshot whose entries have
\* 1 <= amount <= stock[id], every entry of the cart list has
\* 1 <= amount <= stock[id] in every state, whatever addProduct,
\* removeProduct and updateProductAmount calls are made and however they
\* overlap while they await their lookups.
C14_WithinStock ==
    stock # Varying =>
        \A i \in 1..Len(cart) :
            /\ 1 <= heap[cart[i]].amount
            /\ heap[cart[i]].amount <= stock[heap[cart[i]].id]

\* an addProduct that was suspended while another operation raised the same
\* entry to its stock has ended out of stock, and the entry holds the whole
\* stock of its product
C14_Witness ==
    /\ stock # Varying
    /\ done.kind = "add" /\ done.toast = OutOfStockMsg /\ done.found /\ ~done.current
    /\ \E i \in 1..Len(cart) :
            /\ heap[cart[i]].amount >= 2
            /\ heap[cart[i]].amount = stock[heap[cart[i]].id]

\* C15: a removed product does not come back by itself.  A product that has
\* no entry in the cart list gets one only when an addProduct for it commits
\* that was invoked while it had none, so after the removal; no step of an
\* addProduct or updateProductAmount whose closure still holds the removed
\* entry puts it back into the list or the snapshot.
C15_RemovedStaysOut ==
    [][\A p \in Products :
        (~HasEntry(Entries(cart, heap), p) /\ HasEntry(Entries(cart', heap'), p)) =>
            \E op \in BagToSet(ops) :
                /\ Awaits(op, "add", "catalog")
                /\ op.productId = p
                /\ ~HasEntry(Entries(op.cart, heap), p)
                /\ addProductCatalog(op)
      ]_vars

\* C16: the order of the lookups of addProduct, in a session with the stock
\* amounts fixed.  An invocation first awaits the stock request.  It sends
\* the catalog request only after the stock answer, only when that answer
\* passed the check (1 <= stock[p]) and only for a product that had no entry
\* in the cart list when it was invoked.  An addProduct on an existing entry,
\* and one that ends out of stock, returns without a catalog request.
C16_StockBeforeCatalog ==
    [][(stock # Varying /\ ops' # ops) =>
        /\ \A p \in Products :
              addProduct(p) => BagIn(Op("add", p, 0, "stock"), ops')
        /\ \A asked \in BagToSet(ops') :
              (asked.pc = "catalog" /\ CopiesIn(asked, ops') > CopiesIn(asked, ops)) =>
                  LET op == [asked EXCEPT !.pc = "stock"]
                  IN  /\ Pending(op, "add", "stock")
                      /\ CopiesIn(op, ops') < CopiesIn(op, ops)
                      /\ ~HasEntry(Entries(op.cart, heap), op.productId)
                      /\ 1 <= stock[op.productId]
        /\ (Returned /\ done'.kind = "add" /\ (done'.found \/ done'.toast = OutOfStockMsg)) =>
              done'.pc = "stock"
      ]_vars

\* an addProduct on an existing entry has committed without asking the
\* catalog, and another addProduct awaits the catalog after its stock check
C16_Witness ==
    /\ stock # Varying
    /\ done.kind = "add" /\ done.committed /\ done.found /\ done.pc = "stock"
    /\ \E op \in BagToSet(ops) : Awaits(op, "add", "catalog")

\* an invocation of the given kind for product p is suspended on a lookup
Suspended(kind, p) == \E op \in BagToSet(ops) : op.kind = kind /\ op.productId = p

\* C17: when every lookup returns, with a response or a failure, every
\* invocation that was suspended on one finishes: it leaves the suspended
\* invocations and reports its outcome.  A lookup that has not returned keeps
\* only its own invocation suspended: whatever is suspended, every other
\* suspended invocation can run on when its lookup returns, every operation
\* can be invoked, and the steps of the others leave the invocation of the
\* hanging lookup suspended as it is.
C17_EveryInvocationFinishes ==
    /\ \A kind \in {"add", "update"} : \A p \in Products :
          Suspended(kind, p) ~> (done.kind = kind /\ ~Suspended(kind, p))
    /\ [](\A op \in BagToSet(ops) : ENABLED lookupReturns(op))
    /\ [](invoked < MaxOps =>
            \A p \in Products :
                /\ ENABLED addProduct(p)
                /\ ENABLED removeProduct(p)
                /\ \A a \in RequestedAmounts : ENABLED updateProductAmount(p, a))
    /\ [][\A op \in BagToSet(ops) :
            lookupReturns(op) \/ CopiesIn(op, ops') >= CopiesIn(op, ops)]_vars

\* an operation was invoked and has committed while an invocation made
\* before it is still suspended on its lookup
C17_Witness ==
    /\ done.committed
    /\ \E op \in BagToSet(ops) : op.cartId # cartId

====
